---- MODULE Spec2Model ----
(***************************************************************************)
(* Model of the Warbler persistence layer (src/models.py): the five        *)
(* tables users, messages, comments, likes and follows, the SQLAlchemy     *)
(* session that stages User.signup, the relationship collections and the   *)
(* helpers User.signup, User.authenticate, User.is_followed_by,            *)
(* User.is_following and Message.is_liked_by.                              *)
(*                                                                         *)
(* store   : the committed rows of the five tables and the id sequences.   *)
(* session : db.session's pending objects (users staged by User.signup).   *)
(* now     : the wall clock (datetime.utcnow()).                           *)
(* last    : the operation performed last and what it returned or raised.  *)
(*                                                                         *)
(* Strings that are compared with one another (passwords and password      *)
(* hashes) are sequences of small numbers; the other strings are TLA+      *)
(* strings.  Rows are created and deleted by a unit of work that ends in   *)
(* a commit; User.signup alone only stages.                                *)
(***************************************************************************)
EXTENDS Integers, Sequences, FiniteSets, Bags, TLC

VARIABLES store, session, now, last

vars == <<store, session, now, last>>

(* ------------------------------ bounds -------------------------------- *)

(* Users ever inserted; users staged at once; rows of messages, comments,
   likes and follows (see RowCount); the last reading of the clock. *)
MaxUsers == 2
MaxPending == 2
MaxRows == 4
MaxClock == 2

(* ------------------------------ inputs -------------------------------- *)

Usernames == {"alice", "bob"}
Emails == {"a@x.com", "b@x.com"}
Passwords == {<<1>>, <<2>>}
ImageUrls == {"/static/images/default-pic.png"}
Salts == {1, 2}
Texts == {"warble"}

UserIds == 1..MaxUsers
MessageIds == 1..MaxRows

(* The value of datetime.utcnow() when the module was imported. *)
ImportTime == 0

(* Column value left out by the caller. *)
None == -1

(* --------------------------- password hashing ------------------------- *)

(* The "$2b$12$" marker every bcrypt hash string starts with. *)
HashPrefix == <<0>>

(* The digest bcrypt derives from a salt and a password: one output
   character per input character, injective for a fixed salt. *)
Digest(salt, password) ==
    [i \in 1..Len(password) |-> ((password[i] + salt) % 3) + 1]

HashWithSalt(password, salt) == HashPrefix \o <<salt>> \o Digest(salt, password)

(* Faulty variant: the password is stored as given. *)
PlaintextPassword(password, salt) == password

(* bcrypt.generate_password_hash(password).decode('UTF-8'), with the salt
   the library drew. *)
GeneratePasswordHash(password, salt) == HashWithSalt(password, salt)

ValidHash(pw_hash) ==
    Len(pw_hash) >= 2 /\ SubSeq(pw_hash, 1, 1) = HashPrefix

(* bcrypt.check_password_hash(pw_hash, password): hash the candidate with
   the salt stored in pw_hash and compare the two hash strings. *)
CheckPasswordHash(pw_hash, password) ==
    ValidHash(pw_hash) /\ HashWithSalt(password, pw_hash[2]) = pw_hash

(* ------------------------------ outcomes ------------------------------ *)

Ok == [type |-> "ok"]
ReturnFalse == [type |-> "bool", value |-> FALSE]
ReturnUser(u) == [type |-> "User", user |-> u]
IntegrityError(kind, table) ==
    [type |-> "IntegrityError", kind |-> kind, table |-> table]
ValueError == [type |-> "ValueError"]

(* ------------------------------- tables ------------------------------- *)

EmptyStore ==
    [users |-> {}, messages |-> {}, comments |-> {}, likes |-> EmptyBag,
     follows |-> EmptyBag, nextUserId |-> 1, nextMessageId |-> 1,
     nextCommentId |-> 1]

(* Faulty variant: only username is UNIQUE. *)
InsertUserEmailNotUnique(st, u) ==
    IF \E x \in st.users : x.username = u.username
    THEN [ok |-> FALSE, err |-> IntegrityError("unique", "users")]
    ELSE [ok |-> TRUE,
          store |-> [st EXCEPT
              !.users = @ \cup {[id |-> st.nextUserId,
                                 username |-> u.username,
                                 email |-> u.email,
                                 password |-> u.password,
                                 image_url |-> u.image_url]},
              !.nextUserId = @ + 1]]

(* INSERT INTO users: email and username are UNIQUE. *)
InsertUser(st, u) ==
    IF \E x \in st.users : x.email = u.email \/ x.username = u.username
    THEN [ok |-> FALSE, err |-> IntegrityError("unique", "users")]
    ELSE [ok |-> TRUE,
          store |-> [st EXCEPT
              !.users = @ \cup {[id |-> st.nextUserId,
                                 username |-> u.username,
                                 email |-> u.email,
                                 password |-> u.password,
                                 image_url |-> u.image_url]},
              !.nextUserId = @ + 1]]

(* session.flush(): insert the pending objects in the order they were
   added; the first constraint violation aborts the flush. *)
RECURSIVE Flush(_, _)
Flush(st, pending) ==
    IF pending = <<>>
    THEN [ok |-> TRUE, store |-> st]
    ELSE LET r == InsertUser(st, Head(pending))
         IN  IF r.ok THEN Flush(r.store, Tail(pending)) ELSE r

(* ----------------------------- User.signup ---------------------------- *)

Signup(username, email, password, image_url, salt) ==
    /\ Len(session) < MaxPending
    /\ store.nextUserId + Len(session) <= MaxUsers
    /\ LET hashed_pwd == GeneratePasswordHash(password, salt)
           user == [username |-> username, email |-> email,
                    password |-> hashed_pwd, image_url |-> image_url]
       IN  /\ session' = Append(session, user)
           /\ last' = [op |-> "signup", username |-> username,
                        email |-> email, password |-> password,
                        ret |-> ReturnUser(user)]
    /\ UNCHANGED <<store, now>>

(* db.session.commit(): flush, then make the transaction durable; a failed
   flush rolls the transaction back and the pending objects are dropped. *)
Commit ==
    /\ session # <<>>
    /\ LET r == Flush(store, session)
       IN  /\ store' = IF r.ok THEN r.store ELSE store
           /\ last' = [op |-> "commit", ret |-> IF r.ok THEN Ok ELSE r.err]
    /\ session' = <<>>
    /\ UNCHANGED now

(* db.session.rollback() *)
Rollback ==
    /\ session # <<>>
    /\ session' = <<>>
    /\ last' = [op |-> "rollback", ret |-> Ok]
    /\ UNCHANGED <<store, now>>

(* --------------------------- User.authenticate ------------------------ *)

(* cls.query.filter_by(username=username).first() *)
FirstByUsername(users, username) ==
    {u \in users : u.username = username}

(* Faulty variant: an unknown username yields None, a wrong password False. *)
AuthenticateInNoneForUnknown(users, username, password) ==
    LET found == FirstByUsername(users, username)
    IN  IF found = {}
        THEN [type |-> "NoneType"]
        ELSE LET user == CHOOSE u \in found : TRUE
             IN  IF CheckPasswordHash(user.password, password)
                 THEN ReturnUser(user)
                 ELSE ReturnFalse

(* The users the query finds, then the password check. *)
AuthenticateIn(users, username, password) ==
    LET found == FirstByUsername(users, username)
    IN  IF found = {}
        THEN ReturnFalse
        ELSE LET user == CHOOSE u \in found : TRUE
             IN  IF ~ValidHash(user.password)
                 THEN ValueError
                 ELSE IF CheckPasswordHash(user.password, password)
                      THEN ReturnUser(user)
                      ELSE ReturnFalse

(* The query autoflushes the session first: the staged users are visible
   to it, and a staged user that violates a constraint makes the flush
   raise. *)
Authenticate(username, password) ==
    LET r == Flush(store, session)
    IN  /\ last' = [op |-> "authenticate", username |-> username,
                    password |-> password,
                    ret |-> IF r.ok
                            THEN AuthenticateIn(r.store.users, username, password)
                            ELSE r.err]
        /\ session' = IF r.ok THEN session ELSE <<>>
        /\ UNCHANGED <<store, now>>

(* ------------------- rows of follows, likes, messages ----------------- *)

(* likes and follows are bags of rows: only the primary key keeps a row
   from being stored twice. *)
FollowRow(follower_id, followee_id) ==
    [follower_id |-> follower_id, followee_id |-> followee_id]

LikeRow(user_id, message_id) ==
    [user_id |-> user_id, message_id |-> message_id]

UserIdsOf(st) == {u.id : u \in st.users}
MessageIdsOf(st) == {m.id : m \in st.messages}

RemoveRows(bag, rows) == [r \in (DOMAIN bag) \ rows |-> bag[r]]

(* Faulty variant: follows without its primary key. *)
InsertFollowNoKey(st, follower_id, followee_id) ==
    IF ~({follower_id, followee_id} \subseteq UserIdsOf(st))
    THEN [ok |-> FALSE, err |-> IntegrityError("foreign_key", "follows")]
    ELSE [ok |-> TRUE,
          store |-> [st EXCEPT !.follows =
              @ (+) SetToBag({FollowRow(follower_id, followee_id)})]]

(* INSERT INTO follows: both columns reference users.id and together are
   the primary key. *)
InsertFollow(st, follower_id, followee_id) ==
    IF BagIn(FollowRow(follower_id, followee_id), st.follows)
    THEN [ok |-> FALSE, err |-> IntegrityError("unique", "follows")]
    ELSE IF ~({follower_id, followee_id} \subseteq UserIdsOf(st))
    THEN [ok |-> FALSE, err |-> IntegrityError("foreign_key", "follows")]
    ELSE [ok |-> TRUE,
          store |-> [st EXCEPT !.follows =
              @ (+) SetToBag({FollowRow(follower_id, followee_id)})]]

(* Faulty variant: likes without its primary key. *)
InsertLikeNoKey(st, user_id, message_id) ==
    IF user_id \notin UserIdsOf(st) \/ message_id \notin MessageIdsOf(st)
    THEN [ok |-> FALSE, err |-> IntegrityError("foreign_key", "likes")]
    ELSE [ok |-> TRUE,
          store |-> [st EXCEPT !.likes =
              @ (+) SetToBag({LikeRow(user_id, message_id)})]]

(* INSERT INTO likes: user_id references users.id, message_id references
   messages.id, and together they are the primary key. *)
InsertLike(st, user_id, message_id) ==
    IF BagIn(LikeRow(user_id, message_id), st.likes)
    THEN [ok |-> FALSE, err |-> IntegrityError("unique", "likes")]
    ELSE IF user_id \notin UserIdsOf(st) \/ message_id \notin MessageIdsOf(st)
    THEN [ok |-> FALSE, err |-> IntegrityError("foreign_key", "likes")]
    ELSE [ok |-> TRUE,
          store |-> [st EXCEPT !.likes =
              @ (+) SetToBag({LikeRow(user_id, message_id)})]]

(* The column default of Message.timestamp and Comment.timestamp:
   default=datetime.utcnow() is a value, computed once when the class body
   ran. *)
MessageTimestampDefault(clock) == ImportTime
CommentTimestampDefault(clock) == ImportTime

(* INSERT INTO messages.  created and defaulted are history fields, not
   columns: the clock at the insert and whether the default was used. *)
InsertMessage(st, text, user_id, timestamp, clock) ==
    IF user_id \notin UserIdsOf(st)
    THEN [ok |-> FALSE, err |-> IntegrityError("foreign_key", "messages")]
    ELSE [ok |-> TRUE,
          store |-> [st EXCEPT
              !.messages = @ \cup {[id |-> st.nextMessageId,
                  text |-> text,
                  timestamp |-> IF timestamp = None
                                THEN MessageTimestampDefault(clock)
                                ELSE timestamp,
                  user_id |-> user_id,
                  created |-> clock,
                  defaulted |-> (timestamp = None)]},
              !.nextMessageId = @ + 1]]

(* INSERT INTO comments. *)
InsertComment(st, text, user_id, message_id, timestamp, clock) ==
    IF user_id \notin UserIdsOf(st) \/ message_id \notin MessageIdsOf(st)
    THEN [ok |-> FALSE, err |-> IntegrityError("foreign_key", "comments")]
    ELSE [ok |-> TRUE,
          store |-> [st EXCEPT
              !.comments = @ \cup {[id |-> st.nextCommentId,
                  text |-> text,
                  timestamp |-> IF timestamp = None
                                THEN CommentTimestampDefault(clock)
                                ELSE timestamp,
                  user_id |-> user_id,
                  message_id |-> message_id,
                  created |-> clock,
                  defaulted |-> (timestamp = None)]},
              !.nextCommentId = @ + 1]]

(* ------------------------ relationship collections -------------------- *)

(* Faulty variants: a relationship the delete does not cascade over. *)
UserLikesNoCascade(st, user_id) == {}
MessageLikesNoCascade(st, message_id) == {}

(* User.messages, User.likes, User.comments (cascade="all, delete") *)
UserMessages(st, user_id) == {m \in st.messages : m.user_id = user_id}
UserLikes(st, user_id) == {l \in BagToSet(st.likes) : l.user_id = user_id}
UserComments(st, user_id) == {c \in st.comments : c.user_id = user_id}

(* Message.likes, Message.comments (cascade="all, delete") *)
MessageLikes(st, message_id) ==
    {l \in BagToSet(st.likes) : l.message_id = message_id}
MessageComments(st, message_id) ==
    {c \in st.comments : c.message_id = message_id}

(* User.followers: the parent joins follows on follower_id (primaryjoin),
   the collection's members join it on followee_id (secondaryjoin).  The
   collection is a list with one entry per joined row. *)
Followers(st, self) ==
    LET members == {u \in st.users :
                       BagIn(FollowRow(self.id, u.id), st.follows)}
    IN  [u \in members |-> CopiesIn(FollowRow(self.id, u.id), st.follows)]

(* User.following, the backref of followers: the two joins exchanged. *)
Following(st, self) ==
    LET members == {u \in st.users :
                       BagIn(FollowRow(u.id, self.id), st.follows)}
    IN  [u \in members |-> CopiesIn(FollowRow(u.id, self.id), st.follows)]

(* len([user for user in self.followers if user == other_user]) == 1 *)
IsFollowedBy(st, self, other_user) ==
    CopiesIn(other_user, Followers(st, self)) = 1

(* len([user for user in self.following if user == other_user]) == 1 *)
IsFollowing(st, self, other_user) ==
    CopiesIn(other_user, Following(st, self)) = 1

(* Faulty variant: the user id is not compared. *)
IsLikedByAnyUser(st, message, user_id) ==
    Cardinality(MessageLikes(st, message.id)) > 0

(* len([like for like in self.likes if like.user_id == user_id]) > 0 *)
IsLikedBy(st, message, user_id) ==
    Cardinality({like \in MessageLikes(st, message.id) :
                    like.user_id = user_id}) > 0

(* ------------------------------- deletes ------------------------------ *)

(* DELETE FROM messages WHERE id IN ids, as the storage engine runs it:
   comments.message_id is ON DELETE CASCADE, likes.message_id has no
   ON DELETE rule and so blocks the delete. *)
DbDeleteMessages(st, ids) ==
    IF \E l \in BagToSet(st.likes) : l.message_id \in ids
    THEN [ok |-> FALSE, err |-> IntegrityError("foreign_key", "likes")]
    ELSE [ok |-> TRUE,
          store |-> [st EXCEPT
              !.messages = {m \in @ : m.id \notin ids},
              !.comments = {c \in @ : c.message_id \notin ids}]]

(* DELETE FROM users WHERE id = user_id: messages.user_id,
   comments.user_id and both columns of follows are ON DELETE CASCADE,
   likes.user_id has no ON DELETE rule. *)
DbDeleteUser(st, user_id) ==
    IF \E l \in BagToSet(st.likes) : l.user_id = user_id
    THEN [ok |-> FALSE, err |-> IntegrityError("foreign_key", "likes")]
    ELSE LET r == DbDeleteMessages(st,
                      {m.id : m \in {x \in st.messages : x.user_id = user_id}})
         IN  IF ~r.ok THEN r
             ELSE [ok |-> TRUE,
                   store |-> [r.store EXCEPT
                       !.users = {u \in @ : u.id # user_id},
                       !.comments = {c \in @ : c.user_id # user_id},
                       !.follows = RemoveRows(@,
                           {f \in DOMAIN @ : f.follower_id = user_id
                                             \/ f.followee_id = user_id})]]

(* session.delete(message) and the flush: the unit of work deletes the
   members of Message.likes and Message.comments, then the message. *)
OrmDeleteMessages(st, ids) ==
    LET likes == UNION {MessageLikes(st, id) : id \in ids}
        comments == UNION {MessageComments(st, id) : id \in ids}
    IN  DbDeleteMessages([st EXCEPT !.likes = RemoveRows(@, likes),
                                    !.comments = @ \ comments], ids)

(* session.delete(user) and the flush: the delete cascades over
   User.messages (and from each message over its likes and comments),
   User.likes and User.comments; the rows of the secondary table follows
   that belong to followers and following are deleted with the user. *)
OrmDeleteUser(st, user) ==
    LET messages == UserMessages(st, user.id)
        likes == UserLikes(st, user.id)
        comments == UserComments(st, user.id)
        secondary ==
            {FollowRow(user.id, u.id) : u \in DOMAIN Followers(st, user)}
            \cup {FollowRow(u.id, user.id) : u \in DOMAIN Following(st, user)}
        r == OrmDeleteMessages(
                 [st EXCEPT !.likes = RemoveRows(@, likes),
                            !.comments = @ \ comments,
                            !.follows = RemoveRows(@, secondary)],
                 {m.id : m \in messages})
    IN  IF r.ok THEN DbDeleteUser(r.store, user.id) ELSE r

(* ---------------------------- units of work --------------------------- *)

(* The rows of messages and comments created so far and the rows of likes
   and follows stored now: what MaxRows bounds. *)
RowCount(st) ==
    (st.nextMessageId - 1) + (st.nextCommentId - 1)
    + BagCardinality(st.likes) + BagCardinality(st.follows)

(* History: how many rows of each table a unit of work removed. *)
Removed(before, after) ==
    [messages |-> Cardinality(before.messages \ after.messages),
     comments |-> Cardinality(before.comments \ after.comments),
     likes |-> Cardinality((DOMAIN before.likes) \ (DOMAIN after.likes)),
     follows |-> Cardinality((DOMAIN before.follows) \ (DOMAIN after.follows))]

(* The end of a unit of work: commit what the flush produced, or roll
   back; either way nothing stays pending. *)
Finish(op, r) ==
    /\ store' = IF r.ok THEN r.store ELSE store
    /\ session' = <<>>
    /\ last' = [op |-> op, ret |-> IF r.ok THEN Ok ELSE r.err,
                removed |-> IF r.ok THEN Removed(store, r.store)
                            ELSE Removed(store, store)]
    /\ UNCHANGED now

AddFollow(follower_id, followee_id) ==
    /\ RowCount(store) < MaxRows
          \/ BagIn(FollowRow(follower_id, followee_id), store.follows)
    /\ LET f == Flush(store, session)
       IN  Finish("add_follow",
               IF f.ok THEN InsertFollow(f.store, follower_id, followee_id)
               ELSE f)

AddLike(user_id, message_id) ==
    /\ RowCount(store) < MaxRows
          \/ BagIn(LikeRow(user_id, message_id), store.likes)
    /\ LET f == Flush(store, session)
       IN  Finish("add_like",
               IF f.ok THEN InsertLike(f.store, user_id, message_id) ELSE f)

DeleteLike(user_id, message_id) ==
    /\ BagIn(LikeRow(user_id, message_id), store.likes)
    /\ LET f == Flush(store, session)
       IN  Finish("delete_like",
               IF f.ok
               THEN [ok |-> TRUE,
                     store |-> [f.store EXCEPT !.likes =
                         RemoveRows(@, {LikeRow(user_id, message_id)})]]
               ELSE f)

AddMessage(text, user_id, timestamp) ==
    /\ RowCount(store) < MaxRows
    /\ LET f == Flush(store, session)
       IN  Finish("add_message",
               IF f.ok
               THEN InsertMessage(f.store, text, user_id, timestamp, now)
               ELSE f)

AddComment(text, user_id, message_id, timestamp) ==
    /\ RowCount(store) < MaxRows
    /\ LET f == Flush(store, session)
       IN  Finish("add_comment",
               IF f.ok
               THEN InsertComment(f.store, text, user_id, message_id,
                                  timestamp, now)
               ELSE f)

DeleteMessage(message_id) ==
    /\ message_id \in MessageIdsOf(store)
    /\ LET f == Flush(store, session)
       IN  Finish("delete_message",
               IF f.ok THEN OrmDeleteMessages(f.store, {message_id}) ELSE f)

DeleteUser(user_id) ==
    /\ user_id \in UserIdsOf(store)
    /\ LET f == Flush(store, session)
           user == CHOOSE u \in store.users : u.id = user_id
       IN  Finish("delete_user",
               IF f.ok THEN OrmDeleteUser(f.store, user) ELSE f)

(* datetime.utcnow() moves on. *)
Tick ==
    /\ now < MaxClock
    /\ now' = now + 1
    /\ UNCHANGED <<store, session, last>>

(* ------------------------------ behaviour ----------------------------- *)

Init ==
    /\ store = EmptyStore
    /\ session = <<>>
    /\ now = ImportTime
    /\ last = [op |-> "init", ret |-> Ok]

NextAuth ==
    \/ \E username \in Usernames, email \in Emails, password \in Passwords,
          image_url \in ImageUrls, salt \in Salts :
          Signup(username, email, password, image_url, salt)
    \/ Commit
    \/ Rollback
    \/ \E username \in Usernames, password \in Passwords :
          Authenticate(username, password)

SpecAuth == Init /\ [][NextAuth]_vars

(* The accounts the other specifications sign up, in this order, each with
   the same password and salt. *)
Accounts ==
    <<[username |-> "alice", email |-> "a@x.com"],
      [username |-> "bob", email |-> "b@x.com"]>>

SignupAccount ==
    LET k == store.nextUserId + Len(session)
    IN  /\ k <= Len(Accounts)
        /\ \E image_url \in ImageUrls :
               Signup(Accounts[k].username, Accounts[k].email, <<1>>,
                      image_url, 1)

NextContent ==
    \/ SignupAccount
    \/ Commit
    \/ \E follower_id \in UserIds, followee_id \in UserIds :
          AddFollow(follower_id, followee_id)
    \/ \E text \in Texts, user_id \in UserIds :
          AddMessage(text, user_id, None)
    \/ \E text \in Texts, user_id \in UserIds, message_id \in MessageIds :
          AddComment(text, user_id, message_id, None)
    \/ \E user_id \in UserIds, message_id \in MessageIds :
          AddLike(user_id, message_id)
    \/ \E user_id \in UserIds, message_id \in MessageIds :
          DeleteLike(user_id, message_id)
    \/ \E message_id \in MessageIds : DeleteMessage(message_id)
    \/ \E user_id \in UserIds : DeleteUser(user_id)

SpecContent == Init /\ [][NextContent]_vars

NextClock ==
    \/ SignupAccount
    \/ Commit
    \/ Tick
    \/ \E text \in Texts, user_id \in UserIds, timestamp \in {None, now} :
          AddMessage(text, user_id, timestamp)
    \/ \E text \in Texts, user_id \in UserIds, message_id \in MessageIds,
          timestamp \in {None, now} :
          AddComment(text, user_id, message_id, timestamp)

SpecClock == Init /\ [][NextClock]_vars

Next ==
    \/ NextAuth
    \/ NextContent
    \/ NextClock

Spec == Init /\ [][Next]_vars

(* ------------------------------- claims ------------------------------- *)

(* Every foreign key of the committed rows names an existing row. *)
ReferentialIntegrity ==
    /\ \A m \in store.messages : m.user_id \in UserIdsOf(store)
    /\ \A c \in store.comments :
          c.user_id \in UserIdsOf(store) /\ c.message_id \in MessageIdsOf(store)
    /\ \A l \in BagToSet(store.likes) :
          l.user_id \in UserIdsOf(store) /\ l.message_id \in MessageIdsOf(store)
    /\ \A f \in BagToSet(store.follows) :
          {f.follower_id, f.followee_id} \subseteq UserIdsOf(store)

(* C1: in every committed state, for all users A and B, a follows row with
   follower_id A and followee_id B makes B.is_followed_by(A) and
   A.is_following(B) true, and with no follows row between A and B both
   are false. *)
C1_FollowRowMeansFollows ==
    \A a \in store.users, b \in store.users :
        LET ab == BagIn(FollowRow(a.id, b.id), store.follows)
            ba == BagIn(FollowRow(b.id, a.id), store.follows)
        IN  /\ ab => IsFollowedBy(store, b, a) /\ IsFollowing(store, a, b)
            /\ (~ab /\ ~ba) =>
                  ~IsFollowedBy(store, b, a) /\ ~IsFollowing(store, a, b)

(* C2: a commit that directly follows User.signup(username, email,
   password) succeeds when the signup is the only staged one and clashes
   with no committed user; after a successful commit exactly one user has
   that username, its stored password differs from the plaintext, and
   User.authenticate(username, password) returns that user. *)
C2_SignupThenCommit ==
    [][(last.op = "signup" /\ last'.op = "commit" /\ Commit) =>
        LET clash == \E x \in store.users :
                        x.username = last.username \/ x.email = last.email
            found == {u \in store'.users : u.username = last.username}
        IN  /\ (Len(session) = 1 /\ ~clash) => last'.ret = Ok
            /\ last'.ret = Ok =>
                 /\ Cardinality(found) = 1
                 /\ \A u \in found :
                       /\ u.email = last.email
                       /\ u.password # last.password
                       /\ AuthenticateIn(store'.users, last.username,
                                         last.password) = ReturnUser(u)]_vars

C2_Witness ==
    /\ last.op = "commit"
    /\ last.ret = Ok
    /\ \E u \in store.users, password \in Passwords :
          /\ u.password # password
          /\ AuthenticateIn(store.users, u.username, password) = ReturnUser(u)

(* C3: User.authenticate(username, password) returns False both when the
   users visible to the query hold no user of that username and when they
   hold one whose password does not match, and returns the matching user
   otherwise; when the query's flush of the staged users raises, the error
   is the flush's, whatever the username and password. *)
C3_AuthenticateFailuresAlike ==
    [][\A username \in Usernames, password \in Passwords :
        (last'.op = "authenticate" /\ Authenticate(username, password)) =>
            LET r == Flush(store, session)
                named == {u \in r.store.users : u.username = username}
                match == {u \in named :
                             CheckPasswordHash(u.password, password)}
            IN  IF ~r.ok THEN last'.ret = r.err
                ELSE /\ named = {} => last'.ret = ReturnFalse
                     /\ (named # {} /\ match = {}) => last'.ret = ReturnFalse
                     /\ match # {} =>
                           /\ last'.ret.type = "User"
                           /\ last'.ret.user \in match]_vars

C3_Witness ==
    /\ last.op = "authenticate"
    /\ last.ret = ReturnFalse
    /\ session = <<>>
    /\ \E u \in store.users :
          /\ u.username = last.username
          /\ ~CheckPasswordHash(u.password, last.password)
    /\ \E username \in Usernames :
          /\ \A u \in store.users : u.username # username
          /\ AuthenticateIn(store.users, username, last.password) = last.ret

(* C4: a successful delete of a user removes the user, every message the
   user owns, every like and comment the user made, every like and comment
   on the user's messages and every follows row the user is part of, and
   no remaining row references the user's id; the delete succeeds whenever
   the staged users can be flushed. *)
C4_DeleteUserCascades ==
    [][\A user_id \in UserIds :
        (last'.op = "delete_user" /\ DeleteUser(user_id)) =>
            LET owned == {m.id : m \in {x \in store.messages :
                                           x.user_id = user_id}}
            IN  /\ Flush(store, session).ok => last'.ret = Ok
                /\ last'.ret = Ok =>
                     /\ user_id \notin UserIdsOf(store')
                     /\ \A m \in store'.messages :
                           m.user_id # user_id /\ m.id \notin owned
                     /\ \A c \in store'.comments :
                           c.user_id # user_id /\ c.message_id \notin owned
                     /\ \A l \in BagToSet(store'.likes) :
                           l.user_id # user_id /\ l.message_id \notin owned
                     /\ \A f \in BagToSet(store'.follows) :
                           f.follower_id # user_id /\ f.followee_id # user_id
                     /\ ReferentialIntegrity']_vars

C4_Witness ==
    /\ last.op = "delete_user"
    /\ last.ret = Ok
    /\ last.removed.messages >= 1
    /\ last.removed.comments >= 1
    /\ last.removed.likes >= 1
    /\ last.removed.follows >= 1
    /\ store.users # {}
    /\ ReferentialIntegrity

(* C5: a successful delete of a message removes the message, every like
   and every comment attached to it, and nothing else: the users, the
   other messages, the likes and comments of the other messages and the
   follows rows stay; the delete succeeds whenever the staged users can be
   flushed. *)
C5_DeleteMessageCascades ==
    [][\A message_id \in MessageIds :
        (last'.op = "delete_message" /\ DeleteMessage(message_id)) =>
            /\ Flush(store, session).ok => last'.ret = Ok
            /\ last'.ret = Ok =>
                 /\ store'.messages =
                       {m \in store.messages : m.id # message_id}
                 /\ store'.comments =
                       {c \in store.comments : c.message_id # message_id}
                 /\ store'.likes = RemoveRows(store.likes,
                       {l \in DOMAIN store.likes : l.message_id = message_id})
                 /\ store'.follows = store.follows
                 /\ store.users \subseteq store'.users]_vars

C5_Witness ==
    /\ last.op = "delete_message"
    /\ last.ret = Ok
    /\ last.removed.messages = 1
    /\ last.removed.likes >= 1
    /\ last.removed.comments >= 1
    /\ store.messages # {}
    /\ Cardinality(store.users) = 2

(* C6: User.signup never fails and changes no committed row, whatever
   users exist: it returns the staged user.  A commit whose staged users
   clash in username or email with a committed user raises the storage
   layer's uniqueness violation and leaves the committed rows as they
   were.  No two committed users share a username or an email. *)
UniqueUsers(st) ==
    \A x \in st.users, y \in st.users :
        (x.username = y.username \/ x.email = y.email) => x = y

C6_SignupClashFailsAtCommit ==
    [][/\ \A username \in Usernames, email \in Emails,
             password \in Passwords, image_url \in ImageUrls, salt \in Salts :
             (/\ last'.op = "signup"
              /\ Signup(username, email, password, image_url, salt)) =>
                 /\ last'.ret.type = "User"
                 /\ last'.ret.user.username = username
                 /\ last'.ret.user.email = email
                 /\ store' = store
       /\ (last'.op = "commit" /\ Commit
            /\ \E i \in 1..Len(session), x \in store.users :
                        \/ session[i].username = x.username
                        \/ session[i].email = x.email) =>
             /\ last'.ret = IntegrityError("unique", "users")
             /\ store' = store
       /\ UniqueUsers(store')]_vars

C6_Witness ==
    /\ last.op = "commit"
    /\ last.ret = IntegrityError("unique", "users")
    /\ store.users # {}
    /\ UniqueUsers(store)

(* C7: every message and every comment stored with the default timestamp
   has the time of its own creation as its timestamp. *)
C7_DefaultTimestampIsCreationTime ==
    /\ \A m \in store.messages : m.defaulted => m.timestamp = m.created
    /\ \A c \in store.comments : c.defaulted => c.timestamp = c.created

(* C8: creating a follows row whose (follower, followee) pair is already
   stored fails with a uniqueness violation (of the follows key when no
   user is staged) and leaves the committed rows unchanged; every
   (follower, followee) pair is stored at most once. *)
C8_DuplicateFollowFails ==
    [][/\ \A follower_id \in UserIds, followee_id \in UserIds :
             (/\ last'.op = "add_follow"
              /\ BagIn(FollowRow(follower_id, followee_id), store.follows)
              /\ AddFollow(follower_id, followee_id)) =>
                 /\ last'.ret.type = "IntegrityError"
                 /\ last'.ret.kind = "unique"
                 /\ session = <<>> => last'.ret.table = "follows"
                 /\ store' = store
       /\ \A f \in BagToSet(store'.follows) :
             CopiesIn(f, store'.follows) = 1]_vars

C8_Witness ==
    /\ last.op = "add_follow"
    /\ last.ret = IntegrityError("unique", "follows")
    /\ store.follows # EmptyBag

(* C9: creating a likes row whose (user, message) pair is already stored
   fails with a uniqueness violation (of the likes key when no user is
   staged) and leaves the committed rows unchanged; every (user, message)
   pair is stored at most once. *)
C9_DuplicateLikeFails ==
    [][/\ \A user_id \in UserIds, message_id \in MessageIds :
             (/\ last'.op = "add_like"
              /\ BagIn(LikeRow(user_id, message_id), store.likes)
              /\ AddLike(user_id, message_id)) =>
                 /\ last'.ret.type = "IntegrityError"
                 /\ last'.ret.kind = "unique"
                 /\ session = <<>> => last'.ret.table = "likes"
                 /\ store' = store
       /\ \A l \in BagToSet(store'.likes) :
             CopiesIn(l, store'.likes) = 1]_vars

C9_Witness ==
    /\ last.op = "add_like"
    /\ last.ret = IntegrityError("unique", "likes")
    /\ store.likes # EmptyBag

(* C10: for every stored message m and every user id u, m.is_liked_by(u)
   is true exactly when a likes row (u, m.id) is stored. *)
C10_IsLikedByIffLikeRow ==
    \A m \in store.messages, user_id \in UserIds :
        IsLikedBy(store, m, user_id) <=>
            BagIn(LikeRow(user_id, m.id), store.likes)

C10_Witness ==
    /\ last.op \in {"delete_like", "delete_user", "delete_message"}
    /\ last.ret = Ok
    /\ \E m \in store.messages, liker \in UserIds, other \in UserIds :
          /\ IsLikedBy(store, m, liker)
          /\ ~IsLikedBy(store, m, other)

====
